---- MODULE Spec2Model ----
(***************************************************************************)
(* Model of mthread.h: running POSIX threads on C++ member functions.      *)
(*                                                                         *)
(* A launch is one call of mthread_create / mthread<T,R>::create.  The     *)
(* launching thread allocates an mthread object (the call context) with    *)
(* new, constructs it, and hands it to pthread_create together with one of *)
(* the two static trampolines func_no_args / func_args.  The worker thread *)
(* runs the trampoline: it reads the context, calls the member function,   *)
(* deletes the context and returns 0.                                      *)
(***************************************************************************)
EXTENDS Naturals, Sequences, FiniteSets

\* Number of launches (calls of mthread_create) in a run.
MaxLaunch == 2

Launches == 1..MaxLaunch

\* Heap addresses available to operator new: one per launch is always enough.
Addrs == 1..MaxLaunch

\* The objects the caller owns and passes by pointer.  The owner type T fixes
\* the member functions that can be bound to an owner: counters have the
\* no-argument methods, writers the one-argument method.
Counters == {"c1", "c2"}
Writers == {"w1"}
Owners == Counters \cup Writers
Args == {"a1", "a2"}

\* The null pointer, and the content of storage no constructor has written.
NULL == "NULL"
UNINIT == "UNINIT"

\* Member functions of the owner types: R (T::*)() and R (T::*)(void *).
NoArgFns == {"incr", "incr_sync"}
ArgFns == {"store"}

\* Error numbers pthread_create can return (EAGAIN, EINVAL).
ErrCodes == {11, 22}

\* The integer held by each argument referent.
ArgValue == [a \in Args |-> IF a = "a1" THEN 42 ELSE 7]

VARIABLES
    lpc,        \* launching thread's position in each launch
    call,       \* the parameters each launch was called with
    wrap,       \* the pointer new returned, until it is passed to pthread_create
    heap,       \* the mthread objects, by address
    ctxid,      \* per address: the launch whose new allocated the storage
    thread,     \* per launch: what pthread_create was given
    native_rc,  \* per launch: what pthread_create returned (<<>> until it has)
    ret,        \* per launch: what mthread_create returned (<<>> until it has)
    wpc,        \* worker thread's position in the trampoline
    calls,      \* per launch: the member-function invocations made for it
    reads,      \* per launch: the context fields its trampoline has read
    destroyed,  \* per launch: the deletions made through its context pointer
    tres,       \* per launch: the value the trampoline returned
    reg,        \* per launch: the counter value a running incr has loaded
    counter,    \* per counter object: the counter the incr methods increment
    slot,       \* per argument referent: the result slot store writes
    raised,     \* per launch: its member function has failed
    process,    \* "running", or "aborted" once a member function failed
    touched,    \* per launch: who has accessed its context, and when
    alive,      \* the caller's objects (owners, arguments) not destroyed
    rv          \* per launch: what its member function returned

vars == <<lpc, call, wrap, heap, ctxid, thread, native_rc, ret, wpc, calls,
          reads, destroyed, tres, reg, counter, slot, raised, process,
          touched, alive, rv>>

NoCall == [kind |-> "none", p_ref |-> NULL, f_start_routine |-> NULL, p_arg |-> NULL]
NoThread == [start_routine |-> NULL, arg |-> 0]
RawStorage == [live |-> FALSE, mp_ref |-> UNINIT, mp_arg |-> UNINIT,
               mf_no_arg |-> UNINIT, mf_arg |-> UNINIT]

Init ==
    /\ lpc = [l \in Launches |-> "idle"]
    /\ call = [l \in Launches |-> NoCall]
    /\ wrap = [l \in Launches |-> 0]
    /\ heap = [a \in Addrs |-> RawStorage]
    /\ ctxid = [a \in Addrs |-> 0]
    /\ thread = [l \in Launches |-> NoThread]
    /\ native_rc = [l \in Launches |-> <<>>]
    /\ ret = [l \in Launches |-> <<>>]
    /\ wpc = [l \in Launches |-> "none"]
    /\ calls = [l \in Launches |-> <<>>]
    /\ reads = [l \in Launches |-> {}]
    /\ destroyed = [l \in Launches |-> <<>>]
    /\ tres = [l \in Launches |-> "none"]
    /\ reg = [l \in Launches |-> 0]
    /\ counter = [o \in Counters |-> 0]
    /\ slot = [a \in Args |-> 0]
    /\ raised = [l \in Launches |-> FALSE]
    /\ process = "running"
    /\ touched = [l \in Launches |-> {}]
    /\ alive = Owners \cup Args
    /\ rv = [l \in Launches |-> "none"]

(***************************************************************************)
(* The mthread object: constructors and destructor.                        *)
(***************************************************************************)

\* A constructor that leaves mp_arg unwritten.
mthread_no_args_uninit(p_ref, f_func) ==
    [live |-> TRUE, mp_ref |-> p_ref, mp_arg |-> UNINIT,
     mf_no_arg |-> f_func, mf_arg |-> NULL]

\* mthread(T *p_ref, R (T::*f_func)())
mthread_no_args(p_ref, f_func) ==
    [live |-> TRUE, mp_ref |-> p_ref, mp_arg |-> NULL,
     mf_no_arg |-> f_func, mf_arg |-> NULL]

\* A constructor that leaves the unused procedure slot unwritten.
mthread_args_partial(p_ref, f_func, p_arg) ==
    [live |-> TRUE, mp_ref |-> p_ref, mp_arg |-> p_arg,
     mf_no_arg |-> UNINIT, mf_arg |-> f_func]

\* A constructor that drops the argument.
mthread_args_droparg(p_ref, f_func, p_arg) ==
    [live |-> TRUE, mp_ref |-> p_ref, mp_arg |-> NULL,
     mf_no_arg |-> NULL, mf_arg |-> f_func]

\* mthread(T *p_ref, R (T::*f_func)(void *), void *p_arg)
mthread_args(p_ref, f_func, p_arg) ==
    [live |-> TRUE, mp_ref |-> p_ref, mp_arg |-> p_arg,
     mf_no_arg |-> NULL, mf_arg |-> f_func]

\* ~mthread(): mp_ref = NULL; mp_arg = NULL.
dtor(obj) == [obj EXCEPT !.mp_ref = NULL, !.mp_arg = NULL]

\* A destructor that deletes what mp_ref and mp_arg point at.
dtor_frees_referents(obj) == {obj.mp_ref, obj.mp_arg} \cap (Owners \cup Args)

\* The caller's objects ~mthread() destroys: "Do not deallocate any data".
dtor_frees(obj) == {}

\* operator delete: the storage is released; what it holds is no longer defined.
operator_delete(obj) == RawStorage

\* One access to the context of launch l: by the launching or the worker
\* thread, before or after pthread_create was invoked for it.
access(l, by) == [by |-> by, created |-> native_rc[l] # <<>>]

(***************************************************************************)
(* The launching thread: mthread_create -> mthread<T,R>::create.           *)
(***************************************************************************)

\* One static context shared by all launches instead of a new one each.
FreeAddrs_shared == Addrs

\* Storage operator new may hand out: any address holding no live object.
FreeAddrs == {a \in Addrs : ~heap[a].live}

\* The address operator new returns.  Freed storage keeps no trace of its
\* former content, so the free addresses are interchangeable and the lowest
\* one stands for any of them.
new_address(free) == CHOOSE a \in free : \A b \in free : a <= b

\* The trampoline each create overload passes to pthread_create.
start_routine_of_swapped(kind) ==
    IF kind = "no_args" THEN "func_args" ELSE "func_no_args"

start_routine_of(kind) == IF kind = "no_args" THEN "func_no_args" ELSE "func_args"

\* A create that reports every failure with one code of its own.
create_result_own(rc) == IF rc = 0 THEN 0 ELSE 1

\* The value create returns for the value pthread_create returned.
create_result(rc) == rc

\* Launches are numbered in the order in which they are called.
MayBegin(l) == process = "running" /\ lpc[l] = "idle" /\ (IF l = 1 THEN TRUE ELSE lpc[l - 1] # "idle")

\* operator new of `new mthread(...)`: raw storage for one context.
operator_new(l, c) ==
    LET a == new_address(FreeAddrs) IN
        /\ lpc' = [lpc EXCEPT ![l] = "allocated"]
        /\ call' = [call EXCEPT ![l] = c]
        /\ wrap' = [wrap EXCEPT ![l] = a]
        /\ heap' = [heap EXCEPT ![a] = [RawStorage EXCEPT !.live = TRUE]]
        /\ ctxid' = [ctxid EXCEPT ![a] = l]
        /\ touched' = [touched EXCEPT ![l] = @ \cup {access(l, "launcher")}]
        /\ UNCHANGED <<thread, native_rc, ret, wpc, calls, reads, destroyed,
                       tres, reg, counter, slot, raised, process,
                       alive, rv>>

\* mthread_create(p_thread, p_attr, p_ref, f_start_routine) is called.
create_no_args(l) ==
    /\ MayBegin(l)
    /\ \E p_ref \in Counters, f \in NoArgFns :
           operator_new(l, [kind |-> "no_args", p_ref |-> p_ref,
                            f_start_routine |-> f, p_arg |-> NULL])

\* mthread_create(p_thread, p_attr, p_ref, f_start_routine, p_arg) is called.
create_args(l) ==
    /\ MayBegin(l)
    /\ \E p_ref \in Writers, f \in ArgFns, p_arg \in Args :
           operator_new(l, [kind |-> "args", p_ref |-> p_ref,
                            f_start_routine |-> f, p_arg |-> p_arg])

\* The constructor of `new mthread(...)` writes the four fields.
construct(l) ==
    /\ process = "running"
    /\ lpc[l] = "allocated"
    /\ lpc' = [lpc EXCEPT ![l] = "constructed"]
    /\ heap' = [heap EXCEPT ![wrap[l]] =
                   IF call[l].kind = "no_args"
                   THEN mthread_no_args(call[l].p_ref, call[l].f_start_routine)
                   ELSE mthread_args(call[l].p_ref, call[l].f_start_routine,
                                     call[l].p_arg)]
    /\ touched' = [touched EXCEPT ![l] = @ \cup {access(l, "launcher")}]
    /\ UNCHANGED <<call, wrap, ctxid, thread, native_rc, ret, wpc, calls, reads,
                   destroyed, tres, reg, counter, slot, raised, process,
                   alive, rv>>

\* pthread_create succeeds: a thread exists that will run the trampoline on the
\* context pointer.
pthread_create_ok(l) ==
    /\ process = "running"
    /\ lpc[l] = "constructed"
    /\ lpc' = [lpc EXCEPT ![l] = "created"]
    /\ thread' = [thread EXCEPT ![l] =
                     [start_routine |-> start_routine_of(call[l].kind),
                      arg |-> wrap[l]]]
    /\ wpc' = [wpc EXCEPT ![l] = "spawned"]
    /\ native_rc' = [native_rc EXCEPT ![l] = <<0>>]
    /\ wrap' = [wrap EXCEPT ![l] = 0]
    /\ UNCHANGED <<call, heap, ctxid, ret, calls, reads, destroyed, tres,
                   reg, counter, slot, raised, process,
                   touched, alive, rv>>

\* pthread_create fails: it returns an error number and creates no thread.
pthread_create_err(l) ==
    /\ process = "running"
    /\ lpc[l] = "constructed"
    /\ lpc' = [lpc EXCEPT ![l] = "created"]
    /\ \E e \in ErrCodes : native_rc' = [native_rc EXCEPT ![l] = <<e>>]
    /\ wrap' = [wrap EXCEPT ![l] = 0]
    /\ UNCHANGED <<call, heap, ctxid, thread, ret, wpc, calls, reads,
                   destroyed, tres, reg, counter, slot, raised, process,
                   touched, alive, rv>>

\* A create that, when pthread_create fails, runs the member function itself.
create_return_inline(l) ==
    /\ process = "running"
    /\ lpc[l] = "created"
    /\ lpc' = [lpc EXCEPT ![l] = "returned"]
    /\ ret' = [ret EXCEPT ![l] = <<create_result(native_rc[l][1])>>]
    /\ calls' = IF native_rc[l] = <<0>> THEN calls
                ELSE [calls EXCEPT ![l] = Append(@,
                        [on |-> "launcher", ref |-> call[l].p_ref,
                         fn |-> call[l].f_start_routine,
                         arg |-> IF call[l].kind = "args" THEN call[l].p_arg
                                 ELSE "none"])]
    /\ UNCHANGED <<call, wrap, raised, heap, ctxid, thread, native_rc, wpc, reads,
                   destroyed, tres, reg, counter, slot, process,
                   touched, alive, rv>>

\* A create that deletes the context when pthread_create has failed.
create_return_frees(l) ==
    /\ process = "running"
    /\ lpc[l] = "created"
    /\ lpc' = [lpc EXCEPT ![l] = "returned"]
    /\ ret' = [ret EXCEPT ![l] = <<create_result(native_rc[l][1])>>]
    /\ heap' = [a \in Addrs |->
                   IF native_rc[l] # <<0>> /\ ctxid[a] = l
                   THEN operator_delete(dtor(heap[a])) ELSE heap[a]]
    /\ ctxid' = [a \in Addrs |->
                    IF native_rc[l] # <<0>> /\ ctxid[a] = l THEN 0 ELSE ctxid[a]]
    /\ UNCHANGED <<call, wrap, raised, thread, native_rc, wpc, calls, reads,
                   destroyed, tres, reg, counter, slot, process,
                   touched, alive, rv>>

\* A create that still uses the context after pthread_create has returned.
create_return_touches(l) ==
    /\ process = "running"
    /\ lpc[l] = "created"
    /\ lpc' = [lpc EXCEPT ![l] = "returned"]
    /\ ret' = [ret EXCEPT ![l] = <<create_result(native_rc[l][1])>>]
    /\ touched' = [touched EXCEPT ![l] = @ \cup {access(l, "launcher")}]
    /\ UNCHANGED <<call, wrap, raised, heap, ctxid, thread, native_rc, wpc, calls,
                   reads, destroyed, tres, reg, counter, slot, process,
                   alive, rv>>

\* A create that waits for the thread it started before it returns.
create_return_waits(l) ==
    /\ process = "running"
    /\ lpc[l] = "created"
    /\ native_rc[l] = <<0>> => wpc[l] = "exited"
    /\ lpc' = [lpc EXCEPT ![l] = "returned"]
    /\ ret' = [ret EXCEPT ![l] = <<create_result(native_rc[l][1])>>]
    /\ UNCHANGED <<call, wrap, raised, heap, ctxid, thread, native_rc, wpc, calls,
                   reads, destroyed, tres, reg, counter, slot, process,
                   touched, alive, rv>>

\* `return pthread_create(...)`: create, and mthread_create around it, return.
create_return(l) ==
    /\ process = "running"
    /\ lpc[l] = "created"
    /\ lpc' = [lpc EXCEPT ![l] = "returned"]
    /\ ret' = [ret EXCEPT ![l] = <<create_result(native_rc[l][1])>>]
    /\ UNCHANGED <<call, wrap, raised, heap, ctxid, thread, native_rc, wpc, calls, reads,
                   destroyed, tres, reg, counter, slot, process,
                   touched, alive, rv>>

\* The caller's pthread_join on the handle of a successful launch: it returns
\* once the thread has returned from its start routine.
pthread_join(l) ==
    /\ process = "running"
    /\ lpc[l] = "returned"
    /\ ret[l] = <<0>>
    /\ wpc[l] = "exited"
    /\ lpc' = [lpc EXCEPT ![l] = "joined"]
    /\ UNCHANGED <<call, wrap, heap, ctxid, thread, native_rc, ret, wpc, calls,
                   reads, destroyed, tres, reg, counter, slot, raised, process,
                   touched, alive, rv>>

(***************************************************************************)
(* The worker thread: the trampolines func_no_args and func_args.          *)
(***************************************************************************)

\* The member-function invocation a worker is in (its latest one).
cur(l) == calls[l][Len(calls[l])]

\* A call through a member-function pointer on an object pointer is defined
\* only when both point at something.
Callable(ref, fn, fns) == ref \in Owners /\ fn \in fns

\* A call the trampoline cannot make (null or unwritten pointer): the thread
\* faults, and the process with it.
fault(l) ==
    /\ wpc' = [wpc EXCEPT ![l] = "failed"]
    /\ process' = "aborted"
    /\ UNCHANGED <<calls, reg, counter, slot>>

\* A trampoline that never makes the call.
func_no_args_skip(l) ==
    /\ process = "running"
    /\ wpc[l] = "spawned"
    /\ thread[l].start_routine = "func_no_args"
    /\ wpc' = [wpc EXCEPT ![l] = "proc_done"]
    /\ UNCHANGED <<lpc, call, wrap, heap, ctxid, thread, native_rc, ret, calls,
                   reads, destroyed, tres, reg, counter, slot, raised, process,
                   touched, alive, rv>>

\* func_no_args: p_wrap = (mthread *) p_arg; (p_wrap->mp_ref->*p_wrap->mf_no_arg)();
func_no_args(l) ==
    /\ process = "running"
    /\ wpc[l] = "spawned"
    /\ thread[l].start_routine = "func_no_args"
    /\ LET p_wrap == heap[thread[l].arg] IN
         /\ reads' = [reads EXCEPT ![l] = @ \cup {"mp_ref", "mf_no_arg"}]
         /\ IF Callable(p_wrap.mp_ref, p_wrap.mf_no_arg, NoArgFns)
            THEN /\ calls' = [calls EXCEPT ![l] = Append(@,
                                 [on |-> "worker", ref |-> p_wrap.mp_ref,
                                  fn |-> p_wrap.mf_no_arg, arg |-> "none"])]
                 /\ wpc' = [wpc EXCEPT ![l] = "in_proc"]
                 /\ UNCHANGED <<reg, counter, slot, process>>
            ELSE fault(l)
    /\ touched' = [touched EXCEPT ![l] = @ \cup {access(l, "worker")}]
    /\ UNCHANGED <<lpc, call, wrap, heap, ctxid, thread, native_rc, ret,
                   destroyed, tres, raised,
                   alive, rv>>

\* func_args: p_wrap = (mthread *) p_arg; (p_wrap->mp_ref->*p_wrap->mf_arg)(p_wrap->mp_arg);
func_args(l) ==
    /\ process = "running"
    /\ wpc[l] = "spawned"
    /\ thread[l].start_routine = "func_args"
    /\ LET p_wrap == heap[thread[l].arg] IN
         /\ reads' = [reads EXCEPT ![l] = @ \cup {"mp_ref", "mf_arg", "mp_arg"}]
         /\ IF Callable(p_wrap.mp_ref, p_wrap.mf_arg, ArgFns)
            THEN /\ calls' = [calls EXCEPT ![l] = Append(@,
                                 [on |-> "worker", ref |-> p_wrap.mp_ref,
                                  fn |-> p_wrap.mf_arg, arg |-> p_wrap.mp_arg])]
                 /\ wpc' = [wpc EXCEPT ![l] = "in_proc"]
                 /\ UNCHANGED <<reg, counter, slot, process>>
            ELSE fault(l)
    /\ touched' = [touched EXCEPT ![l] = @ \cup {access(l, "worker")}]
    /\ UNCHANGED <<lpc, call, wrap, heap, ctxid, thread, native_rc, ret,
                   destroyed, tres, raised,
                   alive, rv>>

\* A trampoline with a catch-all handler around the call.
unwind_caught(l) ==
    /\ process = "running"
    /\ wpc[l] = "in_proc"
    /\ raised' = [raised EXCEPT ![l] = TRUE]
    /\ wpc' = [wpc EXCEPT ![l] = "proc_done"]
    /\ UNCHANGED <<lpc, call, wrap, heap, ctxid, thread, native_rc, ret, calls,
                   reads, destroyed, tres, reg, counter, slot, process,
                   touched, alive, rv>>

\* An unwinding that destroys the context on the way out.
unwind_releases(l) ==
    /\ process = "running"
    /\ wpc[l] = "in_proc"
    /\ raised' = [raised EXCEPT ![l] = TRUE]
    /\ wpc' = [wpc EXCEPT ![l] = "failed"]
    /\ process' = "aborted"
    /\ LET p == thread[l].arg IN
         /\ heap' = [heap EXCEPT ![p] = operator_delete(dtor(@))]
         /\ ctxid' = [ctxid EXCEPT ![p] = 0]
         /\ destroyed' = [destroyed EXCEPT ![l] = Append(@,
                             [by |-> "worker", ctx |-> ctxid[p],
                              was_live |-> heap[p].live, phase |-> wpc[l]])]
    /\ UNCHANGED <<lpc, call, wrap, thread, native_rc, ret, calls,
                   reads, tres, reg, counter, slot,
                   touched, alive, rv>>

\* The member function fails (an exception leaves it, or it faults).  Neither
\* trampoline has a handler, so the failure leaves the start routine and the
\* process terminates abnormally; nothing after the call is executed.
unwind(l) ==
    /\ process = "running"
    /\ wpc[l] = "in_proc"
    /\ raised' = [raised EXCEPT ![l] = TRUE]
    /\ wpc' = [wpc EXCEPT ![l] = "failed"]
    /\ process' = "aborted"
    /\ UNCHANGED <<lpc, call, wrap, heap, ctxid, thread, native_rc, ret, calls,
                   reads, destroyed, tres, reg, counter, slot,
                   touched, alive, rv>>

\* A trampoline that deletes the context before it makes the call.
delete_p_wrap_early(l) ==
    /\ process = "running"
    /\ wpc[l] = "spawned"
    /\ destroyed[l] = <<>>
    /\ LET p == thread[l].arg IN
         /\ heap' = [heap EXCEPT ![p] = operator_delete(dtor(@))]
         /\ ctxid' = [ctxid EXCEPT ![p] = 0]
         /\ destroyed' = [destroyed EXCEPT ![l] = Append(@,
                             [by |-> "worker", ctx |-> ctxid[p],
                              was_live |-> heap[p].live, phase |-> wpc[l]])]
    /\ touched' = [touched EXCEPT ![l] = @ \cup {access(l, "worker")}]
    /\ alive' = alive \ dtor_frees(heap[thread[l].arg])
    /\ UNCHANGED <<lpc, call, wrap, thread, native_rc, ret, calls, reads, wpc,
                   tres, reg, counter, slot, raised, process,
                   rv>>

\* A trampoline that returns without destroying its context.
delete_p_wrap_leaks(l) ==
    /\ process = "running"
    /\ wpc[l] = "proc_done"
    /\ wpc' = [wpc EXCEPT ![l] = "deleted"]
    /\ touched' = [touched EXCEPT ![l] = @ \cup {access(l, "worker")}]
    /\ UNCHANGED <<lpc, call, wrap, heap, ctxid, thread, native_rc, ret, calls,
                   reads, destroyed, tres, reg, counter, slot, raised, process,
                   alive, rv>>

\* delete p_wrap: the destructor clears mp_ref and mp_arg, the storage is freed.
delete_p_wrap(l) ==
    /\ process = "running"
    /\ wpc[l] = "proc_done"
    /\ LET p == thread[l].arg IN
         /\ heap' = [heap EXCEPT ![p] = operator_delete(dtor(@))]
         /\ ctxid' = [ctxid EXCEPT ![p] = 0]
         /\ destroyed' = [destroyed EXCEPT ![l] = Append(@,
                             [by |-> "worker", ctx |-> ctxid[p],
                              was_live |-> heap[p].live, phase |-> wpc[l]])]
    /\ wpc' = [wpc EXCEPT ![l] = "deleted"]
    /\ touched' = [touched EXCEPT ![l] = @ \cup {access(l, "worker")}]
    /\ alive' = alive \ dtor_frees(heap[thread[l].arg])
    /\ UNCHANGED <<lpc, call, wrap, thread, native_rc, ret, calls, reads,
                   tres, reg, counter, slot, raised, process,
                   rv>>

\* A trampoline that hands the member function's return value on.
func_result_propagates(r) == r

\* What the trampoline returns, given what the member function returned.
func_result(r) == NULL

\* A trampoline that returns only once its thread has been joined.
func_return_waits(l) ==
    /\ process = "running"
    /\ wpc[l] = "deleted"
    /\ lpc[l] = "joined"
    /\ wpc' = [wpc EXCEPT ![l] = "exited"]
    /\ tres' = [tres EXCEPT ![l] = func_result(rv[l])]
    /\ thread' = [thread EXCEPT ![l].arg = 0]
    /\ UNCHANGED <<lpc, call, wrap, heap, ctxid, native_rc, ret, calls,
                   reads, destroyed, reg, counter, slot, raised, process,
                   touched, alive, rv>>

\* return 0: the start routine returns a null pointer and the thread ends.
func_return(l) ==
    /\ process = "running"
    /\ wpc[l] = "deleted"
    /\ wpc' = [wpc EXCEPT ![l] = "exited"]
    /\ tres' = [tres EXCEPT ![l] = func_result(rv[l])]
    /\ thread' = [thread EXCEPT ![l].arg = 0]
    /\ UNCHANGED <<lpc, call, wrap, heap, ctxid, native_rc, ret, calls,
                   reads, destroyed, reg, counter, slot, raised, process,
                   touched, alive, rv>>

(***************************************************************************)
(* The caller's member functions (the scenarios' owner types).             *)
(***************************************************************************)

\* incr: ++counter with no synchronisation, a load ...
incr_load(l) ==
    /\ process = "running"
    /\ wpc[l] = "in_proc"
    /\ cur(l).fn = "incr"
    /\ reg' = [reg EXCEPT ![l] = counter[cur(l).ref]]
    /\ wpc' = [wpc EXCEPT ![l] = "proc_mid"]
    /\ UNCHANGED <<lpc, call, wrap, heap, ctxid, thread, native_rc, ret, calls,
                   reads, destroyed, tres, counter, slot, raised, process,
                   touched, alive, rv>>

\* ... and a store of the loaded value plus one.
incr_store(l) ==
    /\ process = "running"
    /\ wpc[l] = "proc_mid"
    /\ counter' = [counter EXCEPT ![cur(l).ref] = reg[l] + 1]
    /\ reg' = [reg EXCEPT ![l] = 0]
    /\ wpc' = [wpc EXCEPT ![l] = "proc_done"]
    /\ rv' = [rv EXCEPT ![l] = "void"]
    /\ UNCHANGED <<lpc, call, wrap, heap, ctxid, thread, native_rc, ret, calls,
                   reads, destroyed, tres, slot, raised, process,
                   touched, alive>>

\* incr_sync: the increment under the caller's own lock (or atomic).
incr_sync(l) ==
    /\ process = "running"
    /\ wpc[l] = "in_proc"
    /\ cur(l).fn = "incr_sync"
    /\ counter' = [counter EXCEPT ![cur(l).ref] = @ + 1]
    /\ wpc' = [wpc EXCEPT ![l] = "proc_done"]
    /\ rv' = [rv EXCEPT ![l] = "void"]
    /\ UNCHANGED <<lpc, call, wrap, heap, ctxid, thread, native_rc, ret, calls,
                   reads, destroyed, tres, reg, slot, raised, process,
                   touched, alive>>

\* store: writes the integer its argument points at into the result slot and
\* returns the pointer it was given.
store(l) ==
    /\ process = "running"
    /\ wpc[l] = "in_proc"
    /\ cur(l).fn = "store"
    /\ cur(l).arg \in Args
    /\ slot' = [slot EXCEPT ![cur(l).arg] = ArgValue[cur(l).arg]]
    /\ wpc' = [wpc EXCEPT ![l] = "proc_done"]
    /\ rv' = [rv EXCEPT ![l] = cur(l).arg]
    /\ UNCHANGED <<lpc, call, wrap, heap, ctxid, thread, native_rc, ret, calls,
                   reads, destroyed, tres, reg, counter, raised, process,
                   touched, alive>>

(***************************************************************************)
(* The specification.                                                      *)
(***************************************************************************)

Next ==
    \E l \in Launches :
          \/ create_no_args(l)
          \/ create_args(l)
          \/ construct(l)
          \/ pthread_create_ok(l)
          \/ pthread_create_err(l)
          \/ create_return(l)
          \/ pthread_join(l)
          \/ func_no_args(l)
          \/ func_args(l)
          \/ unwind(l)
          \/ delete_p_wrap(l)
          \/ func_return(l)
          \/ incr_load(l)
          \/ incr_store(l)
          \/ incr_sync(l)
          \/ store(l)

Spec == Init /\ [][Next]_vars

\* The steps of launch l's worker thread that do not fail: the trampoline, the
\* member function, the delete and the return.
worker_step(l) ==
    \/ func_no_args(l)
    \/ func_args(l)
    \/ incr_load(l)
    \/ incr_store(l)
    \/ incr_sync(l)
    \/ store(l)
    \/ delete_p_wrap(l)
    \/ func_return(l)

\* Fair scheduling: a thread that can take a step eventually takes one.  The
\* worker keeps running, pthread_create's caller gets its return code, and a
\* caller that holds a started handle joins it.
FairSpec ==
    /\ Spec
    /\ \A l \in Launches :
           /\ WF_vars(worker_step(l))
           /\ WF_vars(create_return(l))
           /\ WF_vars(pthread_join(l))

(***************************************************************************)
(* Properties.                                                             *)
(***************************************************************************)

\* The invocation a launch asked for, as the worker thread makes it.
Expected(l) ==
    [on |-> "worker", ref |-> call[l].p_ref, fn |-> call[l].f_start_routine,
     arg |-> IF call[l].kind = "args" THEN call[l].p_arg ELSE "none"]

\* The live contexts allocated by launch l.
Owned(l) == {a \in Addrs : heap[a].live /\ ctxid[a] = l}

\* The worker of launch l is between its start and its delete.
Using(l) == wpc[l] \in {"spawned", "in_proc", "proc_mid", "proc_done"}

\* C1: a joined, successful no-argument launch has run its member function
\* exactly once, on the owner it was given, and on the worker thread; no
\* invocation of a no-argument launch is ever made by the launching thread.
C1_NoArgRunsOnceOnWorker ==
    \A l \in Launches :
        call[l].kind = "no_args" =>
            /\ \A i \in 1..Len(calls[l]) : calls[l][i].on = "worker"
            /\ Len(calls[l]) <= 1
            /\ lpc[l] = "joined" =>
                   /\ ret[l] = <<0>>
                   /\ calls[l] = <<Expected(l)>>
                   /\ wpc[l] = "exited"

C1_Witness ==
    \E l \in Launches :
        /\ call[l].kind = "no_args"
        /\ lpc[l] = "joined"
        /\ Len(calls[l]) = 1
        /\ counter[call[l].p_ref] >= 1

\* C2: every invocation made for a one-argument launch is made on the owner
\* and with exactly the argument pointer the launch was given, and once such
\* a launch is joined the result slot of its argument holds the argument's
\* value.
C2_ArgPassedThrough ==
    \A l \in Launches :
        call[l].kind = "args" =>
            /\ \A i \in 1..Len(calls[l]) :
                   /\ calls[l][i].ref = call[l].p_ref
                   /\ calls[l][i].fn = call[l].f_start_routine
                   /\ calls[l][i].arg = call[l].p_arg
            /\ lpc[l] = "joined" =>
                   /\ Len(calls[l]) = 1
                   /\ slot[call[l].p_arg] = ArgValue[call[l].p_arg]

C2_Witness ==
    \E l, m \in Launches :
        /\ call[l].kind = "args" /\ call[m].kind = "args"
        /\ call[l].p_arg = "a1" /\ call[m].p_arg = "a2"
        /\ lpc[l] = "joined" /\ lpc[m] = "joined"
        /\ slot["a1"] = 42 /\ slot["a2"] = 7

\* C3: what a launch returns is what pthread_create returned for it: 0 exactly
\* when the thread was created, and otherwise pthread_create's error number.
C3_ReturnIsNativeCode ==
    \A l \in Launches :
        ret[l] # <<>> =>
            /\ ret[l] = native_rc[l]
            /\ ret[l] = <<0>> <=> thread[l].start_routine # NULL
            /\ ret[l] # <<0>> => ret[l][1] \in ErrCodes

C3_Witness ==
    \E l, m \in Launches : ret[l] = <<0>> /\ ret[m] = <<22>>

\* C4: a launch whose pthread_create failed returns a nonzero code, has no
\* worker thread and no invocation of its member function, and does not stop
\* the process: the process is aborted only by a failing member function.
C4_CreationFailure ==
    /\ \A l \in Launches :
           (native_rc[l] # <<>> /\ native_rc[l] # <<0>>) =>
               /\ lpc[l] \in {"created", "returned"}
               /\ lpc[l] = "returned" => (ret[l] # <<>> /\ ret[l][1] # 0)
               /\ thread[l] = NoThread
               /\ wpc[l] = "none"
               /\ calls[l] = <<>>
    /\ process = "aborted" =>
           \E l \in Launches : native_rc[l] = <<0>> /\ wpc[l] = "failed"

C4_Witness ==
    \E l, m \in Launches :
        /\ native_rc[l] = <<11>> /\ ret[l] = <<11>> /\ lpc[l] = "returned"
        /\ l < m /\ lpc[m] = "joined"
        /\ process = "running"

\* C5: a context is deleted at most once, by the worker thread that was handed
\* it, while it is live, and only after that worker's member function has been
\* called and has returned; until then the context stays allocated, so neither
\* the launching thread nor anything else destroys it before or during the
\* call.
C5_DestroyedOnceAfterCall ==
    \A l \in Launches :
        /\ Len(destroyed[l]) <= 1
        /\ \A i \in 1..Len(destroyed[l]) :
               /\ destroyed[l][i] = [by |-> "worker", ctx |-> l,
                                     was_live |-> TRUE, phase |-> "proc_done"]
               /\ Len(calls[l]) = 1
               /\ wpc[l] \in {"deleted", "exited"}
        /\ (lpc[l] # "idle" /\ destroyed[l] = <<>>) => Owned(l) # {}
        /\ Using(l) => heap[thread[l].arg].live

C5_Witness ==
    \E l, m \in Launches :
        /\ Len(destroyed[l]) = 1 /\ wpc[l] = "deleted" /\ Owned(l) = {}
        /\ wpc[m] = "in_proc" /\ Owned(m) # {}

\* C6: every launch has a context of its own: a launch that has begun and
\* whose context is not yet deleted owns exactly one live context, the one its
\* pointer refers to; two workers never hold the same context; and every
\* invocation a worker makes is the one its own launch asked for, once per
\* joined launch.
C6_IndependentContexts ==
    /\ \A l \in Launches :
           /\ (lpc[l] # "idle" /\ destroyed[l] = <<>>) => Cardinality(Owned(l)) = 1
           /\ wrap[l] # 0 => wrap[l] \in Owned(l)
           /\ Using(l) => thread[l].arg \in Owned(l)
           /\ \A i \in 1..Len(calls[l]) : calls[l][i] = Expected(l)
           /\ lpc[l] = "joined" => Len(calls[l]) = 1
    /\ \A l, m \in Launches :
           (l # m /\ Using(l) /\ Using(m)) => thread[l].arg # thread[m].arg

C6_Witness ==
    \E l, m \in Launches :
        /\ l # m
        /\ call[l] = call[m]
        /\ wpc[l] = "in_proc" /\ wpc[m] = "in_proc"
        /\ thread[l].arg # thread[m].arg

\* The launches bound to counter object c.
LaunchesOn(c) == {l \in Launches : call[l].p_ref = c}

AllJoined == \A l \in Launches : lpc[l] = "joined"

\* C7 as stated: once all launches are joined, every counter equals the number
\* of launches of an incrementing method on it, whatever the method's own
\* synchronisation.
C7_CounterEqualsLaunches ==
    AllJoined =>
        \A c \in Counters : counter[c] = Cardinality(LaunchesOn(c))

\* C7 amended: once all launches are joined, a counter incremented only by the
\* synchronised method equals the number of launches on it; with the
\* unsynchronised method updates can be lost, and the counter is at least 1
\* and at most the number of launches.
C7_CounterEqualsLaunchesIfSynchronised ==
    AllJoined =>
        \A c \in Counters :
            /\ (\A l \in LaunchesOn(c) : call[l].f_start_routine = "incr_sync")
                   => counter[c] = Cardinality(LaunchesOn(c))
            /\ counter[c] <= Cardinality(LaunchesOn(c))
            /\ LaunchesOn(c) # {} => counter[c] >= 1

C7_Witness ==
    /\ AllJoined
    /\ \A l \in Launches :
           call[l].p_ref = "c1" /\ call[l].f_start_routine = "incr_sync"
    /\ counter["c1"] = MaxLaunch

\* C8: whenever pthread_create has returned in a launch, the launch can return
\* at once, wherever its worker is: not started, in the member function, or
\* finished.
C8_LaunchNeverWaits ==
    \A l \in Launches :
        (process = "running" /\ lpc[l] = "created") => ENABLED create_return(l)

C8_Witness ==
    \E l, m \in Launches :
        /\ lpc[l] = "returned" /\ wpc[l] = "spawned"
        /\ lpc[m] = "created" /\ wpc[m] = "exited"

\* C9: a no-argument launch stores a null argument, its trampoline never reads
\* the argument field, and its member function is called without an argument.
C9_NoArgNeverTouchesArgument ==
    \A l \in Launches :
        call[l].kind = "no_args" =>
            /\ "mp_arg" \notin reads[l]
            /\ \A i \in 1..Len(calls[l]) : calls[l][i].arg = "none"
            /\ lpc[l] # "allocated" =>
                   \A a \in Owned(l) : heap[a].mp_arg = NULL

C9_Witness ==
    \E l \in Launches :
        /\ call[l].kind = "no_args"
        /\ wpc[l] = "in_proc"
        /\ reads[l] = {"mp_ref", "mf_no_arg"}
        /\ heap[thread[l].arg].mp_arg = NULL

\* C10: when a member function fails on the worker thread, the trampoline
\* returns no result for that call, the launch's return code is not affected,
\* the thread is never joined, and the process is terminated abnormally.
C10_FailurePropagates ==
    \A l \in Launches :
        raised[l] =>
            /\ wpc[l] = "failed"
            /\ tres[l] = "none"
            /\ process = "aborted"
            /\ lpc[l] # "joined"
            /\ ret[l] \in {<<>>, <<0>>}

C10_Witness ==
    \E l \in Launches :
        /\ raised[l]
        /\ lpc[l] = "returned"
        /\ calls[l] = <<Expected(l)>>

\* The context a launch was asked to build, as its constructor leaves it.
Built(l) ==
    [live |-> TRUE, mp_ref |-> call[l].p_ref,
     mp_arg |-> IF call[l].kind = "args" THEN call[l].p_arg ELSE NULL,
     mf_no_arg |-> IF call[l].kind = "no_args" THEN call[l].f_start_routine ELSE NULL,
     mf_arg |-> IF call[l].kind = "args" THEN call[l].f_start_routine ELSE NULL]

\* pthread_create has failed in launch l.
CreationFailed(l) == native_rc[l] # <<>> /\ native_rc[l] # <<0>>

\* C11: once pthread_create has failed in a launch, the context of that launch
\* stays allocated, as constructed, in every state from then on: no trampoline
\* runs for it and the launch does not delete it.
C11_ContextLeaksOnFailure ==
    \A l \in Launches :
        CreationFailed(l) =>
            /\ Cardinality(Owned(l)) = 1
            /\ \A a \in Owned(l) : heap[a] = Built(l)
            /\ destroyed[l] = <<>>
            /\ wpc[l] = "none"

C11_Witness ==
    \E l, m \in Launches :
        /\ CreationFailed(l) /\ lpc[l] = "returned"
        /\ lpc[m] = "joined" /\ l < m
        /\ Owned(l) # {} /\ Owned(m) = {}

\* C12: a context is accessed by the launching thread only before
\* pthread_create is invoked for it and by the worker thread only afterwards;
\* the launching thread holds the pointer only between new and pthread_create,
\* when no worker exists, and no other launch's pointer refers to a context a
\* worker is using.
C12_ExclusiveAccess ==
    \A l \in Launches :
        /\ \A t \in touched[l] :
               /\ t.by = "launcher" => ~t.created
               /\ t.by = "worker" => t.created
        /\ wrap[l] # 0 <=> lpc[l] \in {"allocated", "constructed"}
        /\ lpc[l] \in {"allocated", "constructed"} => wpc[l] = "none"
        /\ wpc[l] # "none" => lpc[l] \in {"created", "returned", "joined"}
        /\ \A m \in Launches :
               (m # l /\ Using(l) /\ wrap[m] # 0) => wrap[m] # thread[l].arg

C12_Witness ==
    \E l, m \in Launches :
        /\ wpc[l] = "in_proc"
        /\ touched[l] = {[by |-> "launcher", created |-> FALSE],
                         [by |-> "worker", created |-> TRUE]}
        /\ lpc[m] = "constructed"
        /\ wrap[m] # thread[l].arg

\* Some field of the object has not been written by a constructor.
Unwritten(obj) ==
    UNINIT \in {obj.mp_ref, obj.mp_arg, obj.mf_no_arg, obj.mf_arg}

\* C13: when pthread_create is about to be invoked, and whenever the worker is
\* between its start and its delete, the context holds in all four fields the
\* values given to the launch; a context with an unwritten field exists only
\* between new and the constructor, when the launch has no worker.
C13_FullyBuiltBeforeCreate ==
    /\ \A l \in Launches :
           /\ lpc[l] = "constructed" => heap[wrap[l]] = Built(l)
           /\ Using(l) => heap[thread[l].arg] = Built(l)
    /\ \A a \in Addrs :
           (heap[a].live /\ Unwritten(heap[a])) =>
               /\ ctxid[a] \in Launches
               /\ lpc[ctxid[a]] = "allocated"
               /\ wpc[ctxid[a]] = "none"

C13_Witness ==
    \E l, m \in Launches :
        /\ call[l].kind = "args"
        /\ wpc[l] = "in_proc"
        /\ reads[l] = {"mp_ref", "mf_arg", "mp_arg"}
        /\ heap[thread[l].arg] = Built(l)
        /\ lpc[m] = "allocated" /\ Unwritten(heap[wrap[m]])

\* The procedure slots of the object that hold a member function.
SetSlots(obj) ==
    {f \in {"mf_no_arg", "mf_arg"} : obj[f] \in NoArgFns \cup ArgFns}

\* The slot a trampoline calls through.
SlotOf(routine) == IF routine = "func_no_args" THEN "mf_no_arg" ELSE "mf_arg"

\* C14: every live, constructed context has exactly one procedure slot set and
\* the other NULL; the trampoline given to pthread_create is the one that calls
\* through the set slot; and a worker fails only because its procedure failed,
\* never because a trampoline called through an absent pointer.
C14_OneSlotMatchesTrampoline ==
    /\ \A a \in Addrs :
           (heap[a].live /\ ~Unwritten(heap[a])) =>
               /\ Cardinality(SetSlots(heap[a])) = 1
               /\ \A f \in {"mf_no_arg", "mf_arg"} \ SetSlots(heap[a]) :
                      heap[a][f] = NULL
    /\ \A l \in Launches :
           /\ Using(l) =>
                  SetSlots(heap[thread[l].arg]) = {SlotOf(thread[l].start_routine)}
           /\ wpc[l] = "failed" => raised[l]
           /\ wpc[l] \notin {"none", "spawned"} =>
                  /\ Len(calls[l]) = 1
                  /\ cur(l).fn \in (IF thread[l].start_routine = "func_no_args"
                                    THEN NoArgFns ELSE ArgFns)

C14_Witness ==
    \E l, m \in Launches :
        /\ wpc[l] = "in_proc" /\ thread[l].start_routine = "func_no_args"
        /\ SetSlots(heap[thread[l].arg]) = {"mf_no_arg"}
        /\ wpc[m] = "in_proc" /\ thread[m].start_routine = "func_args"
        /\ SetSlots(heap[thread[m].arg]) = {"mf_arg"}

\* Launch l has run to completion: procedure invoked once, context destroyed,
\* worker exited with the empty result, join returned.
Completed(l) ==
    /\ Len(calls[l]) = 1 /\ calls[l][1] = Expected(l)
    /\ Len(destroyed[l]) = 1 /\ Owned(l) = {}
    /\ wpc[l] = "exited" /\ tres[l] = NULL
    /\ lpc[l] = "joined"

\* C15: under fair scheduling, once pthread_create has started the worker of a
\* launch, that launch runs to completion (procedure invoked, context
\* destroyed, worker exited with NULL, join returned), unless a member
\* function fails and takes the process down.
C15_EventuallyCompletes ==
    \A l \in Launches :
        (wpc[l] = "spawned") ~> (Completed(l) \/ process = "aborted")

C15_Witness ==
    \E l \in Launches :
        /\ Completed(l)
        /\ ret[l] = <<0>>
        /\ process = "running"

\* C16: a step that destroys a context releases that context's storage and
\* nothing else: the references it held are gone with it, every other context
\* is untouched, and the owner objects and argument referents stay alive with
\* their state (counters, result slots) as it was.
C16_DestroyTouchesOnlyContext ==
    [][\A l \in Launches :
           Len(destroyed'[l]) > Len(destroyed[l]) =>
               LET p == thread[l].arg IN
                 /\ heap[p].live /\ ~heap'[p].live
                 /\ dtor(heap[p]).mp_ref = NULL /\ dtor(heap[p]).mp_arg = NULL
                 /\ heap'[p].mp_ref \notin Owners /\ heap'[p].mp_arg \notin Args
                 /\ \A a \in Addrs \ {p} : heap'[a] = heap[a]
                 /\ alive' = alive /\ alive = Owners \cup Args
                 /\ counter' = counter /\ slot' = slot
                 /\ call' = call]_vars

C16_Witness ==
    \E l \in Launches :
        /\ wpc[l] = "deleted" /\ Len(destroyed[l]) = 1
        /\ call[l].kind = "args"
        /\ {call[l].p_ref, call[l].p_arg} \subseteq alive
        /\ slot[call[l].p_arg] = ArgValue[call[l].p_arg]

\* Every launch whose native creation succeeded has been joined.
AllSuccessfulJoined ==
    \A l \in Launches : native_rc[l] = <<0>> => lpc[l] = "joined"

\* C17: when a join has returned, the joined launch's context has already
\* been destroyed, exactly once; and once every successful launch has been
\* joined, the contexts still allocated are those of failed launches (or of a
\* launch still on its way to pthread_create).
C17_JoinedMeansDestroyed ==
    /\ \A l \in Launches :
           lpc[l] = "joined" =>
               /\ Owned(l) = {}
               /\ Len(destroyed[l]) = 1
               /\ wpc[l] = "exited"
    /\ AllSuccessfulJoined =>
           \A a \in Addrs :
               heap[a].live =>
                   /\ ctxid[a] \in Launches
                   /\ \/ CreationFailed(ctxid[a])
                      \/ lpc[ctxid[a]] \in {"allocated", "constructed"}

C17_Witness ==
    /\ AllSuccessfulJoined
    /\ \E l, m \in Launches :
           /\ lpc[m] = "joined" /\ Owned(m) = {} /\ Len(destroyed[m]) = 1
           /\ CreationFailed(l) /\ Owned(l) # {}
           /\ \A a \in Addrs : heap[a].live <=> a \in Owned(l)

\* C18: when the member function has failed on the worker, the launch's
\* context has not been destroyed: it is still allocated, still holds what the
\* launch gave it, and the worker never reached the delete or the return.
C18_FailureLeaksContext ==
    \A l \in Launches :
        raised[l] =>
            /\ destroyed[l] = <<>>
            /\ Owned(l) = {thread[l].arg}
            /\ heap[thread[l].arg] = Built(l)
            /\ wpc[l] = "failed"
            /\ tres[l] = "none"

C18_Witness ==
    \E l, m \in Launches :
        /\ raised[l] /\ Owned(l) # {} /\ Len(calls[l]) = 1
        /\ l # m /\ lpc[m] = "joined" /\ Owned(m) = {}

\* C19: the value a worker thread ends with is NULL whatever its member
\* function returned; no thread ends with any other value, and a thread that
\* has not returned from its trampoline has no result.
C19_ResultAlwaysNull ==
    \A l \in Launches :
        /\ tres[l] \in {"none", NULL}
        /\ wpc[l] = "exited" <=> tres[l] = NULL
        /\ (wpc[l] = "exited" /\ rv[l] \in Args) => tres[l] # rv[l]

C19_Witness ==
    \E l, m \in Launches :
        /\ wpc[l] = "exited" /\ rv[l] \in Args /\ tres[l] = NULL
        /\ wpc[m] = "exited" /\ rv[m] = "void" /\ tres[m] = NULL

====
